---- MODULE Spec2Model ----
(***************************************************************************)
(* A model of the local relay of databricks_claude/proxy.py: the           *)
(* credential provider get_databricks_token (token cache, lock, external   *)
(* broker `databricks auth token`) and the /v1/messages handler            *)
(* chat_completions (header rewriting, upstream dispatch, relay of the     *)
(* buffered or streamed response), and of the launchers of                *)
(* databricks_claude/cli.py and databricks_coding_agent/cli.py             *)
(* (find_proxy_port, wait_for_proxy, launch_claude_max_mode), which are    *)
(* explored under their own specification SpecLauncher.                    *)
(*                                                                         *)
(* Strings are modelled as sequences of atoms; the atom "Bearer " stands   *)
(* for that seven-character text, every other atom for text that does not  *)
(* contain it.  Time is in seconds and advances in steps of Tick.          *)
(***************************************************************************)
EXTENDS Integers, Sequences, FiniteSets, TLC

\* ------------------------------------------------------------------ bounds
NReq == 2          \* concurrent request threads, each serving one request
MaxTicks == 2      \* the clock runs from 0 to MaxTicks * Tick
MaxChunks == 2     \* chunks an upstream stream yields before it ends

\* ------------------------------------------------------- program constants
Margin == 60       \* proxy.py:80   now < expiry - 60
DefaultTtl == 3600 \* proxy.py:100  expiry = now + 3600
HttpOk == 200      \* proxy.py:154  r.status_code != 200

Tick == Margin \div 2
MaxClock == MaxTicks * Tick

Reqs == 1 .. NReq
NoReq == 0
None == "None"

\* Python truthiness of an optional string (proxy.py:75, 80, 91, 129).
Truthy(v) == v \notin {None, ""}

CliTokens == <<"cli1", "cli2", "cli3", "cli4", "cli5", "cli6">>
\* The access_token printed by the i-th broker invocation.
CliToken(i) == CliTokens[i]

VARIABLES
    traffic,          \* the load explored: "many" plain requests, "one" of any
                      \* kind, or the "calls" of get_databricks_token alone
    static_token,     \* os.environ.get("DATABRICKS_TOKEN")
    token_cache,      \* _token_cache: [access_token, expiry]
    token_lock,       \* _token_lock: the request holding it, or NoReq
    clock,            \* time.time()
    completed,        \* the number of broker invocations that have ended
    pc,               \* where each request thread is
    now,              \* the local `now` of get_databricks_token
    databricks_token, \* the value get_databricks_token returned
    outcome,          \* how this call of get_databricks_token got its value
    cohort,           \* the first invocation in flight while the request waited
    inbound,          \* the inbound request: headers read and the stream flag
    outbound,         \* the headers of the upstream request
    dispatches,       \* upstream dispatches made for the request
    upstream,         \* what the upstream call ended with
    received,         \* chunks read from the upstream stream, in order
    delivered,        \* chunks yielded to the caller, in order
    response,         \* the response given to the caller
    conn              \* the two connections of a streamed response

\* Under "many" every request thread serves a plain request (one header set,
\* buffered, one upstream answer and one upstream failure); under "one" a
\* single request draws its headers, transport mode and upstream behaviour
\* from the full sets.  The forwarding of one request reads nothing another
\* request writes, so the two loads together cover the handler.
Pick(full, plain) == IF traffic = "one" THEN full ELSE plain
Clients == Pick({1}, Reqs)

credVars == <<traffic, static_token, token_cache, token_lock, clock, completed,
              now, databricks_token, outcome, cohort>>
fwdVars == <<inbound, outbound, dispatches, upstream, received, delivered,
             response, conn>>

\* ------------------------------------------------------------ launcher state
\* The launchers of databricks_claude/cli.py and databricks_coding_agent/cli.py
\* and the ports of 127.0.0.1 they probe, bind and hand to their relay.
NLaunch == 2       \* launcher processes run on the machine
MaxPolls == 2      \* failed probes of wait_for_proxy explored per launcher

PROXY_PORT == 8000 \* cli.py:29 (databricks_coding_agent), cli.py:25 (databricks_claude)

Launchers == 1 .. NLaunch
NoLauncher == 0
Workspaces == {"W1", "W2"}
Packages == {"databricks_claude", "databricks_coding_agent"}
\* The ports the operating system hands out for bind(("127.0.0.1", 0)).
EphemeralPorts == {49152, 49153}
Ports == {PROXY_PORT} \cup EphemeralPorts
NoPort == 0

VARIABLES
    ports,            \* what holds each port of 127.0.0.1
    lpc,              \* where each launcher is
    args,             \* the package a launcher belongs to and its workspace
    found,            \* (port, already_running) as find_proxy_port returned it
    probed,           \* what held PROXY_PORT when find_proxy_port probed it
    tested,           \* whether the test bind found PROXY_PORT free or held
    sockets,          \* the temporary sockets of find_proxy_port still open
    rpc,              \* the relay thread a launcher started
    polls,            \* failed probes of wait_for_proxy so far
    answered,         \* whose listener answered wait_for_proxy
    child             \* whether the agent CLI child was started

launchVars == <<ports, lpc, args, found, probed, tested, sockets, rpc, polls,
                answered, child>>

\* What holds a port: nothing, a listener of another program ("http" answers
\* requests with a success status, "raw" does not), the bound test socket of a
\* launcher, or the relay a launcher started.
Free == [kind |-> "free", pkg |-> None, workspace |-> None, owner |-> NoLauncher]
Foreign(k) == [kind |-> k, pkg |-> None, workspace |-> None, owner |-> NoLauncher]
TestSocket(l) ==
    [kind |-> "test", pkg |-> None, workspace |-> None, owner |-> l]
RelayOf(l) ==
    [kind |-> "relay", pkg |-> args[l].pkg, workspace |-> args[l].workspace,
     owner |-> l]

NoArgs == [pkg |-> None, workspace |-> None]
NotFound == [port |-> NoPort, already_running |-> FALSE]

\* No launcher has started; `occupant` holds the preferred port.
LauncherIdle(occupant) ==
    /\ ports = [p \in Ports |-> IF p = PROXY_PORT THEN occupant ELSE Free]
    /\ lpc = [l \in Launchers |-> "idle"]
    /\ args = [l \in Launchers |-> NoArgs]
    /\ found = [l \in Launchers |-> NotFound]
    /\ probed = [l \in Launchers |-> Free]
    /\ tested = [l \in Launchers |-> "none"]
    /\ sockets = [l \in Launchers |-> {}]
    /\ rpc = [l \in Launchers |-> "none"]
    /\ polls = [l \in Launchers |-> 0]
    /\ answered = [l \in Launchers |-> "none"]
    /\ child = [l \in Launchers |-> FALSE]

\* ------------------------------------------------------ credential provider

\* proxy.py:75  `if static_token:`
UseStaticNever == FALSE
UseStatic == Truthy(static_token)

\* proxy.py:80  the cached token is served when it is more than 60 s from expiry
CacheFreshAtBoundary(t) ==
    Truthy(token_cache.access_token) /\ t <= token_cache.expiry - Margin
CacheFreshNever(t) == FALSE
CacheFresh(t) ==
    Truthy(token_cache.access_token) /\ t < token_cache.expiry - Margin

\* proxy.py:78  `with _token_lock:` can be entered
LockAlwaysFree == TRUE
LockFree == token_lock = NoReq

NoResult == [kind |-> "none", shape |-> "none", value |-> 0]
FailureKinds == {"nonzero", "timeout", "raise", "unparseable", "no_token"}
Failures == {[kind |-> k, shape |-> "none", value |-> 0] : k \in FailureKinds}
\* The expiry field of the broker's JSON, by shape (proxy.py:92).
ExpiryFields(t) ==
    {[kind |-> "ok", shape |-> s, value |-> 0] :
        s \in {"missing", "null", "zero", "badstr", "badtype"}}
    \cup {[kind |-> "ok", shape |-> s, value |-> t + d] :
        s \in {"iso", "num"}, d \in {Margin, Margin + Tick}}
BrokerResults(t) == Failures \cup ExpiryFields(t)
PlainResults(t) ==
    {r \in BrokerResults(t) :
        \/ r.kind = "nonzero"
        \/ r.shape \in {"missing", "iso"}}

\* Every way the broker call can fail, next to the plain successes.
CallResults(t) == Failures \cup {r \in PlainResults(t) : r.kind = "ok"}
\* The answers of the broker explored under each load.
Results(t) ==
    IF traffic = "calls" THEN CallResults(t)
    ELSE Pick(BrokerResults(t), PlainResults(t))

\* proxy.py:93-102  the expiry instant; float() raises on a value that is
\* neither a string nor a number (shape "badtype"), which Refreshed excludes
ParseExpiry(res, t) ==
    CASE res.shape = "iso" -> res.value
      [] res.shape = "badstr" -> t + DefaultTtl
      [] res.shape = "num" -> res.value
      [] res.shape \in {"missing", "null", "zero"} -> t + DefaultTtl
      [] OTHER -> -1

\* proxy.py:88-106  the refresh reached lines 104-106
Refreshed(res) == res.kind = "ok" /\ res.shape # "badtype"

\* The number of broker invocations started so far.
Invocations ==
    completed + (IF \E r \in Reqs : pc[r] = "broker" THEN 1 ELSE 0)

\* proxy.py:66-78  a request arrives; get_databricks_token reads the override
Receive(r) ==
    /\ pc[r] = "idle"
    /\ r \in Clients
    /\ IF UseStatic
       THEN /\ pc' = [pc EXCEPT ![r] = "gotToken"]
            /\ databricks_token' = [databricks_token EXCEPT ![r] = static_token]
            /\ outcome' = [outcome EXCEPT ![r] =
                   [kind |-> "static", shape |-> "none", value |-> 0]]
            /\ cohort' = cohort
       ELSE /\ pc' = [pc EXCEPT ![r] = "lockwait"]
            /\ databricks_token' = databricks_token
            /\ outcome' = outcome
            /\ cohort' = [cohort EXCEPT ![r] =
                   IF \E h \in Reqs : pc[h] = "broker" THEN Invocations ELSE 0]
    /\ UNCHANGED <<traffic, static_token, token_cache, token_lock, clock,
                   completed, now>>
    /\ UNCHANGED fwdVars
    /\ UNCHANGED launchVars

\* proxy.py:78-87  the lock is acquired, the clock read, the cache consulted;
\* a fresh token is returned (releasing the lock), otherwise the broker starts
Acquire(r) ==
    /\ pc[r] = "lockwait"
    /\ LockFree
    /\ IF CacheFresh(clock)
       THEN /\ pc' = [pc EXCEPT ![r] = "gotToken"]
            /\ databricks_token' =
                   [databricks_token EXCEPT ![r] = token_cache.access_token]
            /\ outcome' = [outcome EXCEPT ![r] =
                   [kind |-> "cache", shape |-> "none",
                    value |-> token_cache.expiry]]
            /\ UNCHANGED <<token_lock, cohort>>
       ELSE /\ pc' = [pc EXCEPT ![r] = "broker"]
            /\ token_lock' = r
            /\ outcome' = outcome
            /\ cohort' = [q \in Reqs |->
                   IF (q = r \/ pc[q] = "lockwait") /\ cohort[q] = 0
                   THEN completed + 1 ELSE cohort[q]]
            /\ UNCHANGED databricks_token
    /\ now' = [now EXCEPT ![r] = clock]
    /\ UNCHANGED <<traffic, static_token, token_cache, clock, completed>>
    /\ UNCHANGED fwdVars
    /\ UNCHANGED launchVars

\* proxy.py:78, 106, 110  leaving the `with _token_lock:` block, by a return
\* or by the end of the except clause, releases the lock
LockKept(r) == r
LockAfterReturn(r) == NoReq

\* proxy.py:88-110  a refresh that does not reach lines 104-105 assigns
\* nothing to _token_cache
CacheCleared(c) == [access_token |-> None, expiry |-> 0]
CacheAfterFailure(c) == c

\* proxy.py:84-110  the broker invocation ends; the cache is written on
\* success; the lock is released as the function returns
BrokerReturn(r) ==
    /\ pc[r] = "broker"
    /\ \E res \in Results(clock) :
          /\ outcome' = [outcome EXCEPT ![r] = res]
          /\ IF Refreshed(res)
             THEN /\ token_cache' =
                        [access_token |-> CliToken(completed + 1),
                         expiry |-> ParseExpiry(res, now[r])]
                  /\ databricks_token' = [databricks_token EXCEPT
                        ![r] = CliToken(completed + 1)]
             ELSE /\ token_cache' = CacheAfterFailure(token_cache)
                  /\ databricks_token' = [databricks_token EXCEPT ![r] = None]
    /\ completed' = completed + 1
    /\ pc' = [pc EXCEPT ![r] = "gotToken"]
    /\ token_lock' = LockAfterReturn(r)
    /\ UNCHANGED <<traffic, static_token, clock, cohort, now>>
    /\ UNCHANGED fwdVars
    /\ UNCHANGED launchVars

\* ------------------------------------------------------- request transformer

\* Header sets of an inbound request: functions from the names present.
AuthValues ==
    {<<"Bearer ", "k1">>, <<"Bearer ", "k1", "Bearer ", "k2">>, <<"k1">>}
PlainHeaders == "Authorization" :> <<"Bearer ", "k1">>
InboundHeaders ==
    {<<>>} \cup {"Authorization" :> a : a \in AuthValues}
    \cup {PlainHeaders @@ ("Anthropic-Beta" :> <<"beta1">>)}

\* request.headers.get(name, default)
HeaderGet(h, name, default) == IF name \in DOMAIN h THEN h[name] ELSE default

\* proxy.py:135  str.replace("Bearer ", ""): every occurrence is removed
StripBearer(v) == SelectSeq(v, LAMBDA a : a # "Bearer ")

\* proxy.py:136, 141  f"{beta_headers}" of request.headers.get("Anthropic-Beta")
FormatBeta(h) ==
    IF "Anthropic-Beta" \in DOMAIN h THEN h["Anthropic-Beta"] ELSE <<"None">>

NoInbound == [headers |-> <<>>, stream |-> FALSE]
NoOutbound ==
    [Authorization |-> <<>>, x_anthropic_api_key |-> <<>>,
     anthropic_beta |-> <<>>, x_databricks_traffic_id |-> <<>>,
     Content_Type |-> <<>>]

\* proxy.py:135-144  the headers of the upstream request
BuildHeaders(h, token) ==
    [Authorization |-> <<"Bearer ", token>>,
     x_anthropic_api_key |-> StripBearer(HeaderGet(h, "Authorization", <<>>)),
     anthropic_beta |-> FormatBeta(h),
     x_databricks_traffic_id |-> <<"testenv://liteswap/claude_max">>,
     Content_Type |-> <<"application/json">>]

\* ---------------------------------------------------------- forwarding engine

NoUpstream ==
    [status |-> 0, body |-> <<>>, ctype |-> None, fail |-> "none",
     phase |-> "none"]
\* The caller's connection and the upstream connection of a streamed
\* response, and the chunks read from upstream after the caller had gone.
NoConn == [caller_gone |-> FALSE, upstream_open |-> FALSE, late_reads |-> 0]

NoResponse ==
    [status |-> 0, json_error |-> FALSE, text |-> <<>>, type |-> "",
     code |-> 0, mimetype |-> "", complete |-> FALSE, aborted |-> FALSE]

\* jsonify({"error": {"message": m, "type": t[, "code": c]}}), status
JsonError(status, m, t, c) ==
    [status |-> status, json_error |-> TRUE, text |-> m, type |-> t,
     code |-> c, mimetype |-> "application/json", complete |-> TRUE,
     aborted |-> FALSE]

\* proxy.py:170-171  Response(r.content, status=..., content_type=...)
Buffered(status, body, ctype) ==
    [status |-> status, json_error |-> FALSE, text |-> body, type |-> "",
     code |-> 0,
     mimetype |-> IF ctype = None THEN "application/json" ELSE ctype,
     complete |-> TRUE, aborted |-> FALSE]

\* proxy.py:168  Response(generate(), mimetype="text/event-stream")
Streaming ==
    [status |-> HttpOk, json_error |-> FALSE, text |-> <<>>, type |-> "",
     code |-> 0, mimetype |-> "text/event-stream", complete |-> FALSE,
     aborted |-> FALSE]

Statuses == {HttpOk, 201, 429}
Bodies == {<<"b1">>, <<"{\"error\":\"rate limited\"}">>}
CTypes == {None, "text/plain"}
Chunks == {<<>>, <<1>>, <<2, 3>>}
FailKinds == {"timeout", "transport"}

\* proxy.py:129  `if not databricks_token:`
NoTokenNever(t) == FALSE
NoToken(t) == ~Truthy(t)

\* proxy.py:154  `if r.status_code != 200:`
IsGatewayErrorNever(s) == FALSE
IsGatewayError(s) == s # HttpOk

\* proxy.py:165  `if chunk:`
ChunkKeptInverted(c) == c = <<>>
ChunkKept(c) == c # <<>>

\* proxy.py:173-178  `except Timeout` comes before `except RequestException`
FailureResponseUnordered(k) ==
    JsonError(500, <<"str(e)">>, "connection_error", 0)
FailureResponse(k) ==
    IF k = "timeout"
    THEN JsonError(504, <<"Request timed out">>, "timeout_error", 0)
    ELSE JsonError(500, <<"str(e)">>, "connection_error", 0)

\* proxy.py:173-178  the handler returns the error response: it ends
PcRetry == "dispatch"
PcAfterFailure == "sent"

\* proxy.py:125-126, 179-181  the body of the request is not a JSON object:
\* reading it raises, and the handler answers 500 proxy_error
ReceiveMalformed(r) ==
    /\ pc[r] = "idle"
    /\ r \in Clients
    /\ traffic = "one"
    /\ pc' = [pc EXCEPT ![r] = "sent"]
    /\ response' = [response EXCEPT ![r] =
           JsonError(500, <<"str(e)">>, "proxy_error", 0)]
    /\ UNCHANGED credVars
    /\ UNCHANGED <<inbound, outbound, dispatches, upstream, received, delivered>>
    /\ UNCHANGED conn
    /\ UNCHANGED launchVars

\* proxy.py:115-118  GET /: health() answers without asking for a credential
\* or touching the lock; the server gives every request its own thread
\* (proxy.py:207, threaded=True)
HealthResponse == Buffered(HttpOk, <<"{\"status\": \"ok\"}">>, None)

Health(r) ==
    /\ pc[r] = "idle"
    /\ r \in Clients
    /\ traffic = "many"
    /\ pc' = [pc EXCEPT ![r] = "sent"]
    /\ response' = [response EXCEPT ![r] = HealthResponse]
    /\ UNCHANGED credVars
    /\ UNCHANGED <<inbound, outbound, dispatches, upstream, received, delivered,
                   conn>>
    /\ UNCHANGED launchVars

\* proxy.py:128-144  the handler has its credential: without one it answers
\* 500 config_error, otherwise it reads the inbound headers and builds the
\* outbound ones
Build(r) ==
    /\ pc[r] = "gotToken"
    /\ IF NoToken(databricks_token[r])
       THEN /\ pc' = [pc EXCEPT ![r] = "sent"]
            /\ response' = [response EXCEPT ![r] =
                   JsonError(500, <<"No Databricks token available.">>,
                             "config_error", 0)]
            /\ databricks_token' = [databricks_token EXCEPT ![r] = None]
            /\ UNCHANGED <<inbound, outbound>>
       ELSE /\ pc' = [pc EXCEPT ![r] = "dispatch"]
            /\ \E h \in Pick(InboundHeaders, {PlainHeaders}),
                  st \in Pick(BOOLEAN, {FALSE}) :
                  /\ inbound' = [inbound EXCEPT ![r] =
                         [headers |-> h, stream |-> st]]
                  /\ outbound' = [outbound EXCEPT ![r] =
                         BuildHeaders(h, databricks_token[r])]
            /\ UNCHANGED <<response, databricks_token>>
    /\ outcome' = [outcome EXCEPT ![r] = NoResult]
    /\ now' = [now EXCEPT ![r] = 0]
    /\ cohort' = [cohort EXCEPT ![r] = 0]
    /\ UNCHANGED <<traffic, static_token, token_cache, token_lock, clock,
                   completed, dispatches, upstream, received, delivered>>
    /\ UNCHANGED conn
    /\ UNCHANGED launchVars

\* proxy.py:146-152  http_requests.post(...) is sent upstream
Dispatch(r) ==
    /\ pc[r] = "dispatch"
    /\ pc' = [pc EXCEPT ![r] = "post"]
    /\ dispatches' = [dispatches EXCEPT ![r] = @ + 1]
    /\ databricks_token' = [databricks_token EXCEPT ![r] = None]
    /\ UNCHANGED <<traffic, static_token, token_cache, token_lock, clock,
                   completed, now, outcome, cohort>>
    /\ UNCHANGED <<inbound, outbound, upstream, received, delivered, response>>
    /\ UNCHANGED conn
    /\ UNCHANGED launchVars

\* proxy.py:146-158, 173-178  the upstream call raises while connecting,
\* awaiting the response or reading a body inside the try block (the whole
\* body of a non-streaming call, r.text of a non-200 streaming one)
PostFail(r) ==
    /\ pc[r] = "post"
    /\ \E k \in Pick(FailKinds, {"timeout"}),
          ph \in Pick({"connect", "await", "body"}, {"connect"}) :
          /\ upstream' = [upstream EXCEPT ![r] =
                 [NoUpstream EXCEPT !.fail = k, !.phase = ph]]
          /\ response' = [response EXCEPT ![r] = FailureResponse(k)]
    /\ pc' = [pc EXCEPT ![r] = PcAfterFailure]
    /\ UNCHANGED credVars
    /\ UNCHANGED <<inbound, outbound, dispatches, received, delivered>>
    /\ UNCHANGED conn
    /\ UNCHANGED launchVars

\* proxy.py:154-171  the upstream answers with a status and a body
PostResponse(r) ==
    /\ pc[r] = "post"
    /\ \E s \in Pick(Statuses, {HttpOk}), b \in Pick(Bodies, {<<"b1">>}),
          ct \in Pick(CTypes, {None}) :
          IF IsGatewayError(s)
          THEN /\ upstream' = [upstream EXCEPT ![r] =
                      [NoUpstream EXCEPT !.status = s, !.body = b, !.ctype = ct]]
               /\ response' = [response EXCEPT ![r] =
                      JsonError(s, b, "databricks_error", s)]
               /\ pc' = [pc EXCEPT ![r] = "sent"]
               /\ UNCHANGED conn
          ELSE IF inbound[r].stream
          THEN /\ upstream' = [upstream EXCEPT ![r] =
                      [NoUpstream EXCEPT !.status = s, !.ctype = ct]]
               /\ response' = [response EXCEPT ![r] = Streaming]
               /\ conn' = [conn EXCEPT ![r].upstream_open = TRUE]
               /\ pc' = [pc EXCEPT ![r] = "stream"]
          ELSE /\ upstream' = [upstream EXCEPT ![r] =
                      [NoUpstream EXCEPT !.status = s, !.body = b, !.ctype = ct]]
               /\ response' = [response EXCEPT ![r] = Buffered(s, b, ct)]
               /\ pc' = [pc EXCEPT ![r] = "sent"]
               /\ UNCHANGED conn
    /\ inbound' = [inbound EXCEPT ![r] = NoInbound]
    /\ outbound' = [outbound EXCEPT ![r] = NoOutbound]
    /\ UNCHANGED credVars
    /\ UNCHANGED <<dispatches, received, delivered>>
    /\ UNCHANGED launchVars

\* proxy.py:164-165  the generator asks r.iter_content for the next chunk:
\* the stream ends, or a chunk arrives and is yielded unless it is empty.
\* Nothing here looks at the caller's connection.
StreamRead(r) ==
    /\ pc[r] = "stream"
    /\ \/ /\ pc' = [pc EXCEPT ![r] = "sent"]
          /\ response' = [response EXCEPT ![r].complete = TRUE]
          /\ conn' = [conn EXCEPT ![r].upstream_open = FALSE]
          /\ UNCHANGED received
       \/ /\ Len(received[r]) < MaxChunks
          /\ \E c \in Chunks :
                /\ received' = [received EXCEPT ![r] = Append(@, c)]
                /\ pc' = [pc EXCEPT ![r] =
                       IF ChunkKept(c) THEN "yield" ELSE "stream"]
          /\ conn' = [conn EXCEPT ![r].late_reads =
                 IF conn[r].caller_gone THEN @ + 1 ELSE @]
          /\ UNCHANGED response
    /\ UNCHANGED credVars
    /\ UNCHANGED <<inbound, outbound, dispatches, upstream, delivered>>
    /\ UNCHANGED launchVars

\* proxy.py:166  `yield chunk`: the chunk goes to the caller.  When the
\* caller has gone the server's write fails and the server closes the
\* generator at the yield; the generator has no finally and never calls
\* r.close(), so the upstream connection is closed only when the response
\* object is collected, at once or later.
StreamYield(r) ==
    /\ pc[r] = "yield"
    /\ IF conn[r].caller_gone
       THEN /\ pc' = [pc EXCEPT ![r] = "sent"]
            /\ response' = [response EXCEPT ![r].aborted = TRUE]
            /\ \E open \in BOOLEAN :
                   conn' = [conn EXCEPT ![r].upstream_open = open]
            /\ UNCHANGED delivered
       ELSE /\ delivered' = [delivered EXCEPT
                   ![r] = Append(@, received[r][Len(received[r])])]
            /\ pc' = [pc EXCEPT ![r] = "stream"]
            /\ UNCHANGED <<response, conn>>
    /\ UNCHANGED credVars
    /\ UNCHANGED <<inbound, outbound, dispatches, upstream, received>>
    /\ UNCHANGED launchVars

\* The caller closes its connection while the response is streamed to it.
Disconnect(r) ==
    /\ pc[r] \in {"stream", "yield"}
    /\ ~conn[r].caller_gone
    /\ conn' = [conn EXCEPT ![r].caller_gone = TRUE]
    /\ UNCHANGED credVars
    /\ UNCHANGED <<pc, inbound, outbound, dispatches, upstream, received,
                   delivered, response>>
    /\ UNCHANGED launchVars

\* proxy.py:163-168  r.iter_content raises inside the generator, after the
\* handler has returned the 200 response: no except clause is around it
StreamFail(r) ==
    /\ pc[r] = "stream"
    /\ \E k \in FailKinds :
          upstream' = [upstream EXCEPT ![r].fail = k, ![r].phase = "stream"]
    /\ response' = [response EXCEPT ![r].aborted = TRUE]
    /\ pc' = [pc EXCEPT ![r] = "sent"]
    /\ UNCHANGED credVars
    /\ UNCHANGED <<inbound, outbound, dispatches, received, delivered>>
    /\ UNCHANGED conn
    /\ UNCHANGED launchVars

\* the response has gone to the caller; the request thread ends
Finish(r) ==
    /\ pc[r] = "sent"
    /\ pc' = [pc EXCEPT ![r] = "done"]
    /\ inbound' = [inbound EXCEPT ![r] = NoInbound]
    /\ outbound' = [outbound EXCEPT ![r] = NoOutbound]
    /\ dispatches' = [dispatches EXCEPT ![r] = 0]
    /\ upstream' = [upstream EXCEPT ![r] = NoUpstream]
    /\ received' = [received EXCEPT ![r] = <<>>]
    /\ delivered' = [delivered EXCEPT ![r] = <<>>]
    /\ response' = [response EXCEPT ![r] = NoResponse]
    /\ conn' = [conn EXCEPT ![r] = NoConn]
    /\ UNCHANGED credVars
    /\ UNCHANGED launchVars

\* time passes
Advance ==
    /\ clock + Tick <= MaxClock
    /\ clock' = clock + Tick
    /\ UNCHANGED <<traffic, static_token, token_cache, token_lock, completed,
                   pc, now, databricks_token, outcome, cohort>>
    /\ UNCHANGED fwdVars
    /\ UNCHANGED launchVars

vars == <<traffic, static_token, token_cache, token_lock, clock, completed, pc, now,
          databricks_token, outcome, cohort, inbound, outbound, dispatches,
          upstream, received, delivered, response, conn, ports, lpc, args, found,
          probed, tested, sockets, rpc, polls, answered, child>>

Init ==
    /\ traffic \in {"many", "one"}
    /\ static_token \in {None, "", "pat"}
    /\ token_cache \in
          {[access_token |-> None, expiry |-> 0],
           [access_token |-> "cli0", expiry |-> Margin + 2 * Tick]}
    /\ token_lock = NoReq
    /\ clock = 0
    /\ completed = 0
    /\ pc = [r \in Reqs |-> "idle"]
    /\ now = [r \in Reqs |-> 0]
    /\ databricks_token = [r \in Reqs |-> None]
    /\ outcome = [r \in Reqs |-> NoResult]
    /\ cohort = [r \in Reqs |-> 0]
    /\ inbound = [r \in Reqs |-> NoInbound]
    /\ outbound = [r \in Reqs |-> NoOutbound]
    /\ dispatches = [r \in Reqs |-> 0]
    /\ upstream = [r \in Reqs |-> NoUpstream]
    /\ received = [r \in Reqs |-> <<>>]
    /\ delivered = [r \in Reqs |-> <<>>]
    /\ response = [r \in Reqs |-> NoResponse]
    /\ conn = [r \in Reqs |-> NoConn]
    /\ LauncherIdle(Free)

Next ==
    \/ \E r \in Reqs : Receive(r)
    \/ \E r \in Reqs : ReceiveMalformed(r)
    \/ \E r \in Reqs : Health(r)
    \/ \E r \in Reqs : Acquire(r)
    \/ \E r \in Reqs : BrokerReturn(r)
    \/ \E r \in Reqs : Build(r)
    \/ \E r \in Reqs : Dispatch(r)
    \/ \E r \in Reqs : PostFail(r)
    \/ \E r \in Reqs : PostResponse(r)
    \/ \E r \in Reqs : StreamRead(r)
    \/ \E r \in Reqs : StreamYield(r)
    \/ \E r \in Reqs : Disconnect(r)
    \/ \E r \in Reqs : StreamFail(r)
    \/ \E r \in Reqs : Finish(r)
    \/ Advance

Spec == Init /\ [][Next]_vars

\* proxy.py:84-87  subprocess.run(..., timeout=10) ends every broker
\* invocation; the lock is taken as granted fairly to the threads waiting in
\* `with _token_lock:` (proxy.py:78)
Fairness ==
    \A r \in Reqs : WF_vars(BrokerReturn(r)) /\ SF_vars(Acquire(r))

\* The calls of get_databricks_token by concurrent requests, followed until
\* the handler has used what the call returned (proxy.py:66-144), with every
\* kind of broker failure.  The calls are taken at one instant: the cache
\* starts empty, stale or fresh, and the broker's answers leave it in each
\* of these conditions for the callers that come next.
InitCalls ==
    /\ traffic = "calls"
    /\ static_token = None
    /\ token_cache \in
          {[access_token |-> None, expiry |-> 0],
           [access_token |-> "cli0", expiry |-> Margin],
           [access_token |-> "cli0", expiry |-> Margin + 2 * Tick]}
    /\ token_lock = NoReq
    /\ clock = 0
    /\ completed = 0
    /\ pc = [r \in Reqs |-> "idle"]
    /\ now = [r \in Reqs |-> 0]
    /\ databricks_token = [r \in Reqs |-> None]
    /\ outcome = [r \in Reqs |-> NoResult]
    /\ cohort = [r \in Reqs |-> 0]
    /\ inbound = [r \in Reqs |-> NoInbound]
    /\ outbound = [r \in Reqs |-> NoOutbound]
    /\ dispatches = [r \in Reqs |-> 0]
    /\ upstream = [r \in Reqs |-> NoUpstream]
    /\ received = [r \in Reqs |-> <<>>]
    /\ delivered = [r \in Reqs |-> <<>>]
    /\ response = [r \in Reqs |-> NoResponse]
    /\ conn = [r \in Reqs |-> NoConn]
    /\ LauncherIdle(Free)

NextCalls ==
    \/ \E r \in Reqs : Receive(r)
    \/ \E r \in Reqs : Acquire(r)
    \/ \E r \in Reqs : BrokerReturn(r)
    \/ \E r \in Reqs : Build(r)

SpecCalls == InitCalls /\ [][NextCalls]_vars /\ Fairness

\* ------------------------------------------------------------------ launcher

relayVars == <<credVars, pc, fwdVars>>

\* A dict read with .get(key): None when the key is absent.
DictGet(d, k) == IF k \in DOMAIN d THEN d[k] ELSE None

\* proxy.py:115-118  health(): jsonify({"status": "ok"})
health(o) == [status |-> "ok"]

\* The health route of databricks_coding_agent/proxy.py, the relay the
\* coding-agent launcher imports (cli.py:237): status and workspace identity.
agent_health(o) == [status |-> "ok", workspace |-> o.workspace]

\* The JSON a GET / on the port reads from the listener that holds it.
HealthBody(o) ==
    IF o.kind = "relay"
    THEN IF o.pkg = "databricks_claude" THEN health(o) ELSE agent_health(o)
    ELSE [service |-> "other"]

\* cli.py:148-149, 168  urlopen returns: a listener answers with a success
\* status (a refused connection, a timeout or an error status raises)
Answers(o) == o.kind \in {"relay", "http"}

\* cli.py:170  data.get("status") == "ok" and data.get("workspace") == workspace
MatchesAlways(o, w) == Answers(o)
Matches(o, w) ==
    /\ Answers(o)
    /\ DictGet(HealthBody(o), "status") = "ok"
    /\ DictGet(HealthBody(o), "workspace") = w

\* cli.py:180, 188  bind raises OSError unless nothing holds the port
CanBind(o) == o = Free

\* cli.py:181, 190  s.close(): the sockets the launcher still has open
CloseNothing(open, s) == open
Close(open, s) == open \ {s}

\* cli.py:221-231 (databricks_coding_agent), 139-154 (databricks_claude)
\* a launcher starts for a workspace; the first goes on to discovery, the
\* second uses PROXY_PORT as it is
Launch(l) ==
    /\ lpc[l] = "idle"
    /\ \A k \in Launchers : k < l => lpc[k] # "idle"
    /\ \E p \in Packages, w \in (IF l = 1 THEN {"W1"} ELSE Workspaces) :
          /\ args' = [args EXCEPT ![l] = [pkg |-> p, workspace |-> w]]
          /\ IF p = "databricks_coding_agent"
             THEN /\ lpc' = [lpc EXCEPT ![l] = "probe"]
                  /\ UNCHANGED found
             ELSE /\ lpc' = [lpc EXCEPT ![l] = "start"]
                  /\ found' = [found EXCEPT ![l] =
                         [port |-> PROXY_PORT, already_running |-> FALSE]]
    /\ UNCHANGED <<ports, probed, tested, sockets, rpc, polls, answered, child>>
    /\ UNCHANGED relayVars

\* cli.py:167-175  find_proxy_port probes the preferred port
FindProbe(l) ==
    /\ lpc[l] = "probe"
    /\ probed' = [probed EXCEPT ![l] = ports[PROXY_PORT]]
    /\ IF Matches(ports[PROXY_PORT], args[l].workspace)
       THEN /\ found' = [found EXCEPT ![l] =
                   [port |-> PROXY_PORT, already_running |-> TRUE]]
            /\ lpc' = [lpc EXCEPT ![l] = "found"]
       ELSE /\ lpc' = [lpc EXCEPT ![l] = "testbind"]
            /\ UNCHANGED found
    /\ UNCHANGED <<ports, args, tested, sockets, rpc, polls, answered, child>>
    /\ UNCHANGED relayVars

\* cli.py:178-184  a socket is created and bound to the preferred port; when
\* bind raises, s.close() on line 181 is skipped and the socket stays open
FindTestBind(l) ==
    /\ lpc[l] = "testbind"
    /\ sockets' = [sockets EXCEPT ![l] = @ \cup {"first"}]
    /\ tested' = [tested EXCEPT ![l] =
           IF ports[PROXY_PORT] = Free THEN "free" ELSE "held"]
    /\ IF CanBind(ports[PROXY_PORT])
       THEN /\ ports' = [ports EXCEPT ![PROXY_PORT] = TestSocket(l)]
            /\ lpc' = [lpc EXCEPT ![l] = "testclose"]
       ELSE /\ lpc' = [lpc EXCEPT ![l] = "fallback"]
            /\ UNCHANGED ports
    /\ UNCHANGED <<args, found, probed, rpc, polls, answered, child>>
    /\ UNCHANGED relayVars

\* cli.py:181-182  s.close(); return PROXY_PORT, False
FindTestClose(l) ==
    /\ lpc[l] = "testclose"
    /\ sockets' = [sockets EXCEPT ![l] = Close(@, "first")]
    /\ ports' = [ports EXCEPT ![PROXY_PORT] =
           IF "first" \in sockets'[l] THEN @ ELSE Free]
    /\ found' = [found EXCEPT ![l] =
           [port |-> PROXY_PORT, already_running |-> FALSE]]
    /\ lpc' = [lpc EXCEPT ![l] = "found"]
    /\ UNCHANGED <<args, probed, tested, rpc, polls, answered, child>>
    /\ UNCHANGED relayVars

\* cli.py:187-189  `s` is bound anew: nothing closes the first socket but the
\* collection of the unreferenced object, which the interpreter may do at once
\* or later.  The operating system then assigns a free port (the ports it
\* hands out are interchangeable: the lowest free one stands for its choice),
\* or bind raises and the exception leaves find_proxy_port and the launcher.
FindFallback(l) ==
    /\ lpc[l] = "fallback"
    /\ \E collected \in BOOLEAN :
          \/ \E p \in EphemeralPorts :
                /\ CanBind(ports[p])
                /\ \A q \in EphemeralPorts : CanBind(ports[q]) => p <= q
                /\ ports' = [ports EXCEPT ![p] = TestSocket(l)]
                /\ found' = [found EXCEPT ![l] =
                       [port |-> p, already_running |-> FALSE]]
                /\ sockets' = [sockets EXCEPT ![l] =
                       (IF collected THEN {} ELSE @) \cup {"second"}]
                /\ lpc' = [lpc EXCEPT ![l] = "fbclose"]
          \/ /\ sockets' = [sockets EXCEPT ![l] = @ \cup {"second"}]
             /\ ~collected
             /\ lpc' = [lpc EXCEPT ![l] = "raised"]
             /\ UNCHANGED <<ports, found>>
    /\ UNCHANGED <<args, probed, tested, rpc, polls, answered, child>>
    /\ UNCHANGED relayVars

\* cli.py:190-191  s.close(); return port, False
FindFallbackClose(l) ==
    /\ lpc[l] = "fbclose"
    /\ sockets' = [sockets EXCEPT ![l] = Close(@, "second")]
    /\ ports' = [ports EXCEPT ![found[l].port] =
           IF "second" \in sockets'[l] THEN @ ELSE Free]
    /\ lpc' = [lpc EXCEPT ![l] = "found"]
    /\ UNCHANGED <<args, found, probed, tested, rpc, polls, answered, child>>
    /\ UNCHANGED relayVars

\* cli.py:234-246 (databricks_coding_agent), 147-158 (databricks_claude)
\* a reused relay needs no start; otherwise the relay thread is started and
\* the launcher goes on to wait_for_proxy.  What find_proxy_port saw and the
\* sockets it left behind are followed no further.
Reuses(l) == found[l].already_running

StartRelay(l) ==
    /\ lpc[l] \in {"found", "start"}
    /\ IF Reuses(l)
       THEN /\ lpc' = [lpc EXCEPT ![l] = "ready"]
            /\ UNCHANGED rpc
       ELSE /\ lpc' = [lpc EXCEPT ![l] = "waiting"]
            /\ rpc' = [rpc EXCEPT ![l] = "starting"]
    /\ probed' = [probed EXCEPT ![l] = Free]
    /\ tested' = [tested EXCEPT ![l] = "none"]
    /\ sockets' = [sockets EXCEPT ![l] = {}]
    /\ UNCHANGED <<ports, args, found, polls, answered, child>>
    /\ UNCHANGED relayVars

\* proxy.py:202-208  run_proxy: make_server binds the port and the relay
\* serves; when the port is held, make_server raises and the thread ends
RelayBind(l) ==
    /\ rpc[l] = "starting"
    /\ IF CanBind(ports[found[l].port])
       THEN /\ ports' = [ports EXCEPT ![found[l].port] = RelayOf(l)]
            /\ rpc' = [rpc EXCEPT ![l] = "serving"]
       ELSE /\ rpc' = [rpc EXCEPT ![l] = "dead"]
            /\ UNCHANGED ports
    /\ UNCHANGED <<lpc, args, found, probed, tested, sockets, polls, answered,
                   child>>
    /\ UNCHANGED relayVars

\* cli.py:143-155  one round of wait_for_proxy before the deadline: the probe
\* of the chosen port succeeds and the function returns True, or it fails
WaitProbe(l) ==
    /\ lpc[l] = "waiting"
    /\ LET o == ports[found[l].port] IN
          IF Answers(o)
          THEN /\ lpc' = [lpc EXCEPT ![l] = "ready"]
               /\ answered' = [answered EXCEPT ![l] =
                      IF o.owner = l THEN "own" ELSE "other"]
               /\ polls' = [polls EXCEPT ![l] = 0]
          ELSE /\ polls[l] < MaxPolls
               /\ polls' = [polls EXCEPT ![l] = @ + 1]
               /\ UNCHANGED <<lpc, answered>>
    /\ UNCHANGED <<ports, args, found, probed, tested, sockets, rpc, child>>
    /\ UNCHANGED relayVars

\* cli.py:146, 155, 249-252 (databricks_claude: 161-164)  the deadline has passed: wait_for_proxy returns
\* False and the launcher exits with status 1; its relay thread is a daemon
\* and ends with the process
PcAfterTimeout == "exit1"

WaitTimeout(l) ==
    /\ lpc[l] = "waiting"
    /\ polls[l] >= 1
    /\ lpc' = [lpc EXCEPT ![l] = PcAfterTimeout]
    /\ child' = [child EXCEPT ![l] = PcAfterTimeout = "running"]
    /\ rpc' = [rpc EXCEPT ![l] = "dead"]
    /\ ports' = [p \in Ports |->
           IF ports[p] = RelayOf(l) /\ rpc[l] = "serving" THEN Free ELSE ports[p]]
    /\ polls' = [polls EXCEPT ![l] = 0]
    /\ UNCHANGED <<args, found, probed, tested, sockets, answered>>
    /\ UNCHANGED relayVars

\* cli.py:255-261 (databricks_coding_agent), 167-173 (databricks_claude)
\* subprocess.Popen(["claude"] + claude_args, env=env)
StartChild(l) ==
    /\ lpc[l] = "ready"
    /\ lpc' = [lpc EXCEPT ![l] = "running"]
    /\ child' = [child EXCEPT ![l] = TRUE]
    /\ UNCHANGED <<ports, args, found, probed, tested, sockets, rpc, polls,
                   answered>>
    /\ UNCHANGED relayVars

\* cli.py:269 (databricks_coding_agent), 181 (databricks_claude)
\* sys.exit(claude_proc.wait()): the child ends and the launcher exits with
\* its status; the relay thread, a daemon, ends with the process
Exit(l) ==
    /\ lpc[l] = "running"
    /\ lpc' = [lpc EXCEPT ![l] = "done"]
    /\ ports' = [p \in Ports |->
           IF ports[p] = RelayOf(l) /\ rpc[l] = "serving" THEN Free ELSE ports[p]]
    /\ rpc' = [rpc EXCEPT ![l] = "none"]
    /\ args' = [args EXCEPT ![l] = NoArgs]
    /\ found' = [found EXCEPT ![l] = NotFound]
    /\ answered' = [answered EXCEPT ![l] = "none"]
    /\ child' = [child EXCEPT ![l] = FALSE]
    /\ UNCHANGED <<probed, tested, sockets, polls>>
    /\ UNCHANGED relayVars

\* The relay serves no request while the launchers are explored; another
\* program may hold the preferred port from the start.
InitLauncher ==
    /\ traffic = "one"
    /\ static_token = None
    /\ token_cache = [access_token |-> None, expiry |-> 0]
    /\ token_lock = NoReq
    /\ clock = 0
    /\ completed = 0
    /\ pc = [r \in Reqs |-> "idle"]
    /\ now = [r \in Reqs |-> 0]
    /\ databricks_token = [r \in Reqs |-> None]
    /\ outcome = [r \in Reqs |-> NoResult]
    /\ cohort = [r \in Reqs |-> 0]
    /\ inbound = [r \in Reqs |-> NoInbound]
    /\ outbound = [r \in Reqs |-> NoOutbound]
    /\ dispatches = [r \in Reqs |-> 0]
    /\ upstream = [r \in Reqs |-> NoUpstream]
    /\ received = [r \in Reqs |-> <<>>]
    /\ delivered = [r \in Reqs |-> <<>>]
    /\ response = [r \in Reqs |-> NoResponse]
    /\ conn = [r \in Reqs |-> NoConn]
    /\ \E o \in {Free, Foreign("http"), Foreign("raw")} : LauncherIdle(o)

NextLauncher ==
    \/ \E l \in Launchers : Launch(l)
    \/ \E l \in Launchers : FindProbe(l)
    \/ \E l \in Launchers : FindTestBind(l)
    \/ \E l \in Launchers : FindTestClose(l)
    \/ \E l \in Launchers : FindFallback(l)
    \/ \E l \in Launchers : FindFallbackClose(l)
    \/ \E l \in Launchers : StartRelay(l)
    \/ \E l \in Launchers : RelayBind(l)
    \/ \E l \in Launchers : WaitProbe(l)
    \/ \E l \in Launchers : WaitTimeout(l)
    \/ \E l \in Launchers : StartChild(l)
    \/ \E l \in Launchers : Exit(l)

SpecLauncher == InitLauncher /\ [][NextLauncher]_vars

\* ---------------------------------------------------------------- properties

InToken(r) == pc[r] = "gotToken"
\* The request waited for the lock while broker invocation cohort[r] ran, or
\* started that invocation itself.
InCohort(r) == cohort[r] # 0
\* The token of the request's cohort is in the cache and was more than
\* Margin from expiry when the request read the clock under the lock.
CohortTokenFresh(r) ==
    /\ token_cache.access_token = CliToken(cohort[r])
    /\ now[r] < token_cache.expiry - Margin
TokenIds == [t \in {"cli0"} \cup {CliTokens[i] : i \in DOMAIN CliTokens} |->
    IF t = "cli0" THEN 0 ELSE CHOOSE i \in DOMAIN CliTokens : CliTokens[i] = t]

\* C1 as stated: of the requests that are in get_databricks_token together
\* while the cache is stale, none but the first invokes the broker (a request
\* at the broker did not wait during an earlier invocation), and each request
\* that returns a token returns the token of that one invocation.
C1_SingleFlightAlways ==
    \A r \in Reqs :
        /\ pc[r] = "broker" => cohort[r] = completed + 1
        /\ InToken(r) /\ InCohort(r) /\ Truthy(databricks_token[r])
              => databricks_token[r] = CliToken(cohort[r])

\* C1 amended: a request that waited during an invocation whose token is
\* cached and more than 60 s from expiry at the request's clock reading
\* returns that token and does not invoke the broker again.
C1_SingleFlightOnFreshResult ==
    \A r \in Reqs :
        /\ pc[r] = "broker" /\ cohort[r] # completed + 1
              => ~CohortTokenFresh(r)
        /\ InToken(r) /\ InCohort(r) /\ CohortTokenFresh(r)
              => databricks_token[r] = CliToken(cohort[r])

\* C1 witness: a request that waited during another request's invocation has
\* returned that invocation's token from the cache.
C1_Witness ==
    \E r \in Reqs :
        /\ InToken(r) /\ InCohort(r) /\ CohortTokenFresh(r)
        /\ outcome[r].kind = "cache"
        /\ databricks_token[r] = CliToken(cohort[r])

\* C2: without an override, a call returns the cached token only when its
\* clock reading is strictly more than 60 s before the cached expiry; at
\* expiry - 60 or later, or with an empty cache, it is at the broker.
C2_CacheServedOnlyOutsideMargin ==
    \A r \in Reqs :
        /\ InToken(r) /\ outcome[r].kind = "cache"
              => /\ now[r] < outcome[r].value - Margin
                 /\ Truthy(databricks_token[r])
        /\ pc[r] = "broker"
              => \/ ~Truthy(token_cache.access_token)
                 \/ now[r] >= token_cache.expiry - Margin

\* C2 witness: a call that read the clock exactly at expiry - 60 is at the
\* broker although a token is cached.
C2_Witness ==
    \E r \in Reqs :
        /\ pc[r] = "broker"
        /\ Truthy(token_cache.access_token)
        /\ now[r] = token_cache.expiry - Margin

\* C3: with the override set (a non-empty DATABRICKS_TOKEN), every call
\* returns the override and the broker is never invoked, whatever the cache
\* holds and however the requests interleave.
C3_OverrideNeverInvokesBroker ==
    Truthy(static_token) =>
        /\ completed = 0
        /\ token_lock = NoReq
        /\ \A r \in Reqs :
              /\ pc[r] \notin {"lockwait", "broker"}
              /\ InToken(r) => databricks_token[r] = static_token

\* C3 witness: two requests hold the override as their credential while the
\* cache holds a token.
C3_Witness ==
    /\ Truthy(static_token)
    /\ Truthy(token_cache.access_token)
    /\ \E r, q \in Reqs :
          /\ r # q
          /\ InToken(r) /\ InToken(q)
          /\ databricks_token[r] = static_token

\* C4: at most one broker invocation is in flight, its caller holds the lock,
\* and a request that waited for the lock and was served from the cache got a
\* token no older than the invocation it waited for (it read the cache after
\* acquiring the lock).
C4_OneRefreshInFlight ==
    /\ Cardinality({r \in Reqs : pc[r] = "broker"}) <= 1
    /\ \A r \in Reqs :
          /\ pc[r] = "broker" => token_lock = r
          /\ InToken(r) /\ InCohort(r) /\ outcome[r].kind = "cache"
                => TokenIds[databricks_token[r]] >= cohort[r]

\* C4 witness: one request is at the broker while another waits for the lock.
C4_Witness ==
    \E r, q \in Reqs : pc[r] = "broker" /\ pc[q] = "lockwait"

IsConfigError(resp) ==
    resp.status = 500 /\ resp.json_error /\ resp.type = "config_error"

\* C5: a broker invocation that exits non-zero, times out, raises, prints
\* unparseable output or prints no access_token makes get_databricks_token
\* return None; the handler then answers 500 config_error, and a request
\* answered so was never dispatched upstream.
C5_BrokerFailureIsConfigError ==
    /\ [](\A r \in Reqs :
            /\ InToken(r) /\ outcome[r].kind \in FailureKinds
                  => databricks_token[r] = None
            /\ IsConfigError(response[r]) => dispatches[r] = 0)
    /\ [][\A r \in Reqs :
            InToken(r) /\ outcome[r].kind \in FailureKinds /\ pc'[r] # pc[r]
                => /\ pc'[r] = "sent"
                   /\ IsConfigError(response'[r])
                   /\ dispatches'[r] = 0]_vars

\* C5 witness: a request is answered 500 config_error.
C5_Witness ==
    \E r \in Reqs : pc[r] = "sent" /\ IsConfigError(response[r])

HasBearer(h) ==
    /\ "Authorization" \in DOMAIN h
    /\ Len(h["Authorization"]) >= 1
    /\ h["Authorization"][1] = "Bearer "

\* C6 as stated: for an inbound Authorization of `Bearer <k>` the outbound
\* x-anthropic-api-key is k and the outbound Authorization is `Bearer <t>`
\* for the upstream credential t, for every k.
C6_ApiKeyRoundTrip ==
    \A r \in Reqs :
        pc[r] = "dispatch" /\ HasBearer(inbound[r].headers)
            => /\ outbound[r].x_anthropic_api_key
                      = Tail(inbound[r].headers["Authorization"])
               /\ outbound[r].Authorization = <<"Bearer ", databricks_token[r]>>

Is2xx(s) == s \in 200 .. 299
GatewayAnswered(r) == pc[r] = "sent" /\ upstream[r].status # 0

\* C7 as stated: an upstream answer with a non-2xx status s and body b
\* reaches the caller as status s with the body b itself.
C7_GatewayErrorBodyVerbatim ==
    \A r \in Reqs :
        GatewayAnswered(r) /\ ~Is2xx(upstream[r].status)
            => /\ response[r].status = upstream[r].status
               /\ ~response[r].json_error
               /\ response[r].text = upstream[r].body

\* C7 amended: the caller receives status s and the JSON error object whose
\* message is b, type is databricks_error and code is s.
C7_GatewayErrorWrapped ==
    \A r \in Reqs :
        GatewayAnswered(r) /\ ~Is2xx(upstream[r].status)
            => response[r] = JsonError(upstream[r].status, upstream[r].body,
                                       "databricks_error", upstream[r].status)

\* C7 witness: the upstream answered 429 with the rate-limit body.
C7_Witness ==
    \E r \in Reqs :
        /\ GatewayAnswered(r)
        /\ upstream[r].status = 429
        /\ upstream[r].body = <<"{\"error\":\"rate limited\"}">>

IsTimeoutError(resp) ==
    resp.status = 504 /\ resp.json_error /\ resp.type = "timeout_error"
IsConnectionError(resp) ==
    resp.status = 500 /\ resp.json_error /\ resp.type = "connection_error"
Failed(r, k) == pc[r] = "sent" /\ upstream[r].fail = k

C9_NoRetry ==
    /\ [](\A r \in Reqs : dispatches[r] <= 1)
    /\ [][\A r \in Reqs :
            pc[r] = "sent"
                => /\ pc'[r] \in {"sent", "done"}
                   /\ dispatches'[r] <= dispatches[r]]_vars

\* C9 witness: a dispatched request was answered with a transport error.
C9_Witness ==
    \E r \in Reqs :
        /\ pc[r] = "sent"
        /\ dispatches[r] = 1
        /\ IsConnectionError(response[r])

NonEmpty(chunks) == SelectSeq(chunks, LAMBDA c : c # <<>>)
RECURSIVE Bytes(_)
Bytes(chunks) ==
    IF chunks = <<>> THEN 0 ELSE Len(Head(chunks)) + Bytes(Tail(chunks))
Front(q) == SubSeq(q, 1, Len(q) - 1)

\* C10: the chunks delivered to the caller are the (non-empty) chunks read
\* from upstream, in order; every chunk read is delivered before the next
\* read, so the first reaches the caller before the stream has ended; and
\* when the stream has ended the bytes delivered equal the bytes read.
C10_StreamRelayedInOrderUnbuffered ==
    \A r \in Reqs :
        /\ pc[r] = "stream" => delivered[r] = NonEmpty(received[r])
        /\ pc[r] = "yield" => delivered[r] = NonEmpty(Front(received[r]))
        /\ pc[r] = "sent" /\ response[r].mimetype = "text/event-stream"
                          /\ response[r].complete
              => /\ delivered[r] = NonEmpty(received[r])
                 /\ Bytes(delivered[r]) = Bytes(received[r])

\* C10 witness: the first chunk is with the caller while the second has just
\* arrived from upstream.
C10_Witness ==
    \E r \in Reqs :
        /\ pc[r] = "yield"
        /\ Len(received[r]) = 2
        /\ delivered[r] = <<received[r][1]>>

\* C16: once the caller of a streamed response has disconnected, the relay
\* reads no further chunk from upstream for that request, and when the
\* generator has ended the upstream connection is closed.
C16_DisconnectStopsUpstream ==
    \A r \in Reqs :
        conn[r].caller_gone
            => /\ conn[r].late_reads = 0
               /\ pc[r] = "sent" => ~conn[r].upstream_open

\* C17: when the upstream answers a non-streaming request with any 2xx
\* status, the caller receives that status, the upstream body and the upstream
\* content type as they are, and no gateway error object.
C17_Any2xxReturnedVerbatim ==
    [][\A r \in Reqs :
          (/\ pc[r] = "post"
           /\ pc'[r] = "sent"
           /\ ~inbound[r].stream
           /\ upstream'[r].fail = "none"
           /\ Is2xx(upstream'[r].status))
              => response'[r] = Buffered(upstream'[r].status, upstream'[r].body,
                                         upstream'[r].ctype)]_vars

\* C18: the upstream request carries an anthropic-beta header exactly when
\* the inbound request carries Anthropic-Beta, and then with the inbound
\* value unchanged.
C18_BetaHeaderIffInbound ==
    \A r \in Reqs :
        pc[r] = "dispatch" =>
            LET h == inbound[r].headers IN
            /\ "anthropic_beta" \in DOMAIN outbound[r]
                  <=> "Anthropic-Beta" \in DOMAIN h
            /\ "Anthropic-Beta" \in DOMAIN h
                  => outbound[r].anthropic_beta = h["Anthropic-Beta"]

\* The expiry the cache is to hold after a refresh at time t, by the shape of
\* the broker's expiry field: the instant given by a valid ISO-8601 string or
\* a non-zero number, and t + 3600 for every other shape.
ExpiryDue(res, t) ==
    IF res.shape \in {"iso", "num"} THEN res.value ELSE t + DefaultTtl

\* C20: whenever the broker has printed a JSON object with a token, whatever
\* the shape of its expiry field, the call returns that token and the cache
\* holds it with the expiry due for that shape.
C20_ExpiryOfEveryShape ==
    [][\A r \in Reqs :
          (pc[r] = "broker" /\ pc'[r] = "gotToken" /\ outcome'[r].kind = "ok")
              => /\ Truthy(databricks_token'[r])
                 /\ token_cache'.access_token = databricks_token'[r]
                 /\ token_cache'.expiry = ExpiryDue(outcome'[r], now[r])]_vars

\* ------------------------------------------------------- discovery, launcher

\* find_proxy_port has returned to the launcher.
Returned(l) == lpc[l] = "found"

\* The probe of find_proxy_port reached a relay started for workspace w.
ProbedRelayFor(l, w) == probed[l].kind = "relay" /\ probed[l].workspace = w

\* C11: whenever find_proxy_port(W) has probed the preferred port while a
\* healthy relay started for W was listening there, it returns
\* (PROXY_PORT, True), so that the caller starts no relay of its own.
C11_ReuseOfMatchingRelay ==
    \A l \in Launchers :
        Returned(l) /\ ProbedRelayFor(l, args[l].workspace)
            => found[l] = [port |-> PROXY_PORT, already_running |-> TRUE]

\* C12: when find_proxy_port(W') has probed a healthy relay started for another
\* workspace W, it does not report a relay as already running; and whenever its
\* test bind found the preferred port held by a listener that did not match,
\* it returns a port assigned by the operating system, different from
\* PROXY_PORT, with already_running False.
C12_NonMatchingListenerGivesOtherPort ==
    \A l \in Launchers :
        Returned(l) =>
            /\ (probed[l].kind = "relay"
                   /\ probed[l].workspace # args[l].workspace)
                  => ~found[l].already_running
            /\ tested[l] = "held"
                  => /\ found[l].port \in EphemeralPorts
                     /\ found[l].port # PROXY_PORT
                     /\ ~found[l].already_running

C12_Witness ==
    \E l \in Launchers :
        /\ Returned(l)
        /\ probed[l].kind = "relay"
        /\ probed[l].pkg = "databricks_coding_agent"
        /\ probed[l].workspace # args[l].workspace
        /\ tested[l] = "held"
        /\ found[l].port \in EphemeralPorts

\* C13: in every state, a relay that has bound its listener answers GET / with
\* status "ok" and a workspace field equal to the workspace it was started
\* with.
C13_HealthCarriesWorkspace ==
    \A p \in Ports :
        ports[p].kind = "relay" =>
            /\ Answers(ports[p])
            /\ DictGet(HealthBody(ports[p]), "status") = "ok"
            /\ DictGet(HealthBody(ports[p]), "workspace") = ports[p].workspace

\* C14: a launcher whose own relay did not answer a health probe within the
\* readiness window exits with status 1 and never starts the agent CLI; the
\* agent CLI is started only after the relay the launcher started has answered
\* a probe of the chosen port, or after an existing relay was reused.
C14_ChildOnlyBehindOwnOrReusedRelay ==
    \A l \in Launchers :
        /\ lpc[l] = "exit1" => ~child[l]
        /\ child[l] => Reuses(l) \/ answered[l] = "own"

\* find_proxy_port has ended, by a return or by an exception.
Exited(l) == lpc[l] \in {"found", "raised"}

\* C15: once find_proxy_port has ended, on whichever path, none of the
\* temporary sockets it created is still open.
C15_NoTemporarySocketLeftOpen ==
    \A l \in Launchers : Exited(l) => sockets[l] = {}

\* C19: when no relay matched the probe and the test bind found the preferred
\* port free, find_proxy_port holds its test listener on the port until it
\* closes it, and returns (PROXY_PORT, False) with that listener released: the
\* call holds neither the port nor a socket when it returns.
C19_FreePortTestedAndReleased ==
    \A l \in Launchers :
        /\ lpc[l] = "testclose"
              => tested[l] = "free" /\ ports[PROXY_PORT] = TestSocket(l)
        /\ Returned(l) /\ tested[l] = "free"
              => /\ found[l] = [port |-> PROXY_PORT, already_running |-> FALSE]
                 /\ sockets[l] = {}
                 /\ ports[PROXY_PORT] # TestSocket(l)

C19_Witness ==
    \E l \in Launchers :
        /\ Returned(l)
        /\ probed[l] = Free
        /\ tested[l] = "free"
        /\ found[l].port = PROXY_PORT
        /\ ports[PROXY_PORT] = Free

\* ------------------------------------------------------ lock, cache, liveness

\* The request is in its upstream forward call or relaying the answer.
Forwarding(r) == pc[r] \in {"post", "stream", "yield"}

\* C21: the credential lock is held only by a request inside the broker
\* invocation, never by one in its upstream forward call; so with no refresh
\* in flight a request waiting for a credential can take the lock whatever
\* other requests are doing upstream, and a health request can be answered
\* whether or not a refresh is in flight.
C21_LockNotHeldWhileForwarding ==
    /\ \A r \in Reqs : token_lock = r => pc[r] = "broker"
    /\ \A r \in Reqs : Forwarding(r) => token_lock # r
    /\ \A q \in Reqs :
          (pc[q] = "lockwait" /\ \A r \in Reqs : pc[r] # "broker")
              => ENABLED Acquire(q)
    /\ \A q \in Reqs :
          (pc[q] = "idle" /\ traffic = "many") => ENABLED Health(q)

\* C21 witness: one request holds the lock for a refresh it began while
\* another request is in its upstream call.
C21_Witness ==
    \E r, q \in Reqs :
        /\ pc[r] = "post"
        /\ pc[q] = "broker"
        /\ token_lock = q

\* get_databricks_token returns to request r in this step, with no override.
Returns(r) == pc[r] \in {"lockwait", "broker"} /\ pc'[r] = "gotToken"

\* C22 as stated: every token a call returns, from the cache or from the
\* refresh it performed, has at the moment of return an expiry more than 60 s
\* ahead.
C22_ReturnedTokenOutsideMargin ==
    [][\A r \in Reqs :
          Returns(r) /\ Truthy(databricks_token'[r])
              => /\ token_cache'.access_token = databricks_token'[r]
                 /\ token_cache'.expiry > clock + Margin]_vars

\* C22 amended: a token returned from the cache has at the moment of return
\* an expiry more than 60 s ahead; a token returned by the refresh of that
\* call is the one just cached, with the expiry parsed from the broker's
\* answer, however near that is.
C22_CachedTokenOutsideMargin ==
    [][\A r \in Reqs :
          Returns(r) /\ Truthy(databricks_token'[r])
              => /\ token_cache'.access_token = databricks_token'[r]
                 /\ pc[r] = "lockwait"
                       => /\ token_cache' = token_cache
                          /\ token_cache.expiry > clock + Margin
                 /\ pc[r] = "broker"
                       => token_cache'.expiry
                              = ParseExpiry(outcome'[r], now[r])]_vars

\* C22 witness: one call was served from the cache, and later another call
\* returned the token of its own refresh with no more than 60 s to its expiry.
C22_Witness ==
    \E r, q \in Reqs :
        /\ InToken(r) /\ outcome[r].kind = "cache"
        /\ InToken(q) /\ outcome[q].kind = "ok"
        /\ databricks_token[q] = token_cache.access_token
        /\ Truthy(databricks_token[q])
        /\ token_cache.expiry <= now[q] + Margin

\* C23: a refresh that fails leaves both fields of the token cache as they
\* were; the cache changes only when a refresh succeeds, and then both fields
\* are written from the same answer of the broker, so the cached expiry is
\* always the one that came with the cached token (0 with no token).
C23_FailedRefreshKeepsCache ==
    /\ [](~Truthy(token_cache.access_token) => token_cache.expiry = 0)
    /\ [][\A r \in Reqs :
            (pc[r] = "broker" /\ pc'[r] # "broker" /\ ~Refreshed(outcome'[r]))
                => token_cache' = token_cache]_vars
    /\ [][token_cache' # token_cache
            => \E r \in Reqs :
                  /\ pc[r] = "broker" /\ pc'[r] = "gotToken"
                  /\ token_lock = r
                  /\ Refreshed(outcome'[r])
                  /\ token_cache'.access_token = databricks_token'[r]
                  /\ token_cache'.expiry = ParseExpiry(outcome'[r], now[r])]_vars

\* C23 witness: a refresh has failed while the cache held a token too near
\* its expiry to be served, and the cache still holds that token.
C23_Witness ==
    \E r \in Reqs :
        /\ InToken(r)
        /\ outcome[r].kind \in FailureKinds
        /\ token_cache = [access_token |-> "cli0", expiry |-> Margin + 2 * Tick]

\* ------------------------------------------------------------ discovery race

\* Launcher l ran find_proxy_port for workspace w while nothing held the
\* preferred port, and the call has returned.
DiscoveredFree(l, w) ==
    /\ args[l] = [pkg |-> "databricks_coding_agent", workspace |-> w]
    /\ Returned(l)
    /\ probed[l] = Free

\* C24: the relay a launcher starts on a port that find_proxy_port returned
\* with already_running False binds that port; and of two launchers for the
\* same workspace whose discovery ran with no relay running, at most one is
\* told to start a relay.
C24_OneRelayPerWorkspace ==
    /\ \A l \in Launchers :
          (args[l].pkg = "databricks_coding_agent" /\ rpc[l] = "dead")
              => lpc[l] = "exit1"
    /\ \A l, k \in Launchers : \A w \in Workspaces :
          (l # k /\ DiscoveredFree(l, w) /\ DiscoveredFree(k, w))
              => found[l].already_running \/ found[k].already_running

\* ------------------------------------------------------------------ liveness

InCall(r) == pc[r] \in {"lockwait", "broker"}

\* C25: with every broker invocation ending and the lock granted fairly,
\* every call of get_databricks_token returns, to a token or to None; a held
\* lock is released again, whatever way the invocation ends; and a request
\* that has had its answer from the call does not hold the lock.
C25_EveryCallReturns ==
    /\ \A r \in Reqs : InCall(r) ~> InToken(r)
    /\ \A r \in Reqs : (token_lock = r) ~> (token_lock # r /\ InToken(r))
    /\ [][\A r \in Reqs :
            (pc[r] = "broker" /\ pc'[r] # "broker")
                => token_lock = r /\ token_lock' = NoReq]_vars

\* C25 witness: a request that had to wait for the lock while another
\* request's broker invocation failed has returned from its own call.
C25_Witness ==
    \E r, q \in Reqs :
        /\ r # q
        /\ InToken(q) /\ outcome[q].kind \in FailureKinds
        /\ InToken(r) /\ outcome[r].kind = "ok"
        /\ InCohort(r) /\ cohort[r] = cohort[q]
        /\ token_lock = NoReq

====
